---- MODULE Spec2Model ----
(***************************************************************************)
(* Model of the two bridge programs of the repository:                     *)
(*   ds18b20_modbus.py  (sensor bridge: DS18B20 probes -> Modbus registers)*)
(*   weather_modbus.py  (weather bridge: wttr.in -> one Modbus register)   *)
(*                                                                         *)
(* Python values are modelled as follows.                                  *)
(*   - A temperature is a float with at most three decimals; it is kept as *)
(*     its integer number of millidegrees (21.562 is 21562).  For every    *)
(*     such value up to +-3400 degrees the IEEE-754 result of              *)
(*     int(temperature * 10) equals the exact truncation toward zero of    *)
(*     millidegrees / 100, which is what temp_value computes.              *)
(*   - What read_temp hands back is a record: kind "float" with its        *)
(*     millidegrees, or kind "tuple" for the pair (None, None).            *)
(*   - What read_temp_raw hands back is a record: ok = FALSE for None,     *)
(*     else the number of lines, the trailing token of the first line and  *)
(*     the shape of the t= field of the second line.                       *)
(*   - self.instrument is "None" or "Instrument".                          *)
(*   - A probe identifier is a number; glob lists the probes on the bus in *)
(*     increasing order of it.                                             *)
(***************************************************************************)
EXTENDS Integers, Sequences, FiniteSets, TLC

VARIABLES
  mode,         \* which program runs: "sensor" or "weather"
  pc,           \* position of main
  instrument,   \* ModbusRTUWriter.instrument
  sensors,      \* get_all_temperatures: the list find_sensors returned
  idx,          \* get_all_temperatures: position in sensors of the probe being read
  lines,        \* read_temp: the local lines (last result of read_temp_raw)
  attempts,     \* read_temp: raw reads made for the current probe (saturating)
  results,      \* get_all_temperatures: the dict results, in insertion order
  wi,           \* main: position in temperatures.items() of the write loop
  temperature,  \* weather main: the local temperature
  fetch,        \* what the last get_current_temperature call saw and did
  last,         \* what the last write_temperature call saw and did
  prevResult,   \* what the write_temperature call before the last one returned
  attempted,    \* the write_temperature calls of the current tick, in order
  tickFault,    \* whether the serial line refused a connect or a frame this tick
  regs,         \* the slave's holding registers: <<>> or <<value>>
  sampled,      \* get_all_temperatures / get_current_temperature calls of the current tick
  watch,        \* whether this specification keeps the history variables below
  pin,          \* history: <<probe, register>> of the first reading a write was called for
  stopDelivered \* history: Ctrl+C was pressed while main was in its try

vars == <<mode, pc, instrument, sensors, idx, lines, attempts, results, wi,
          temperature, fetch, last, prevResult, attempted, tickFault, regs,
          sampled, watch, pin, stopDelivered>>

----------------------------------------------------------------------------
(* Bounds of the model *)

\* The raw-read counter of read_temp saturates here (the loop itself is unbounded).
MaxAttempts == 3

\* How many probes the 1-Wire bus may hold.
MaxProbes == 3

\* Millidegree values a probe may report.
ProbeMillis == {21562, -5000}

\* Millidegree values the weather provider may report.
WeatherMillis == {13000, -5000}

Probes == 1..MaxProbes

----------------------------------------------------------------------------
(* Program constants *)

FunctionCode == 6

WEATHER_REGISTER == 4096

sensor_registers == (0 :> 4096) @@ (1 :> 4097)

RegisterAddresses == {sensor_registers[i] : i \in DOMAIN sensor_registers} \cup {WEATHER_REGISTER}

----------------------------------------------------------------------------
(* Values *)

NoneTuple == [kind |-> "tuple", milli |-> 0]

Float(m) == [kind |-> "float", milli |-> m]

NoTemperature == [kind |-> "None", milli |-> 0]

\* read_temp_raw returned None
NoLines == [ok |-> FALSE, n |-> 0, crc |-> "-", t |-> "-", milli |-> 0]

\* Everything read_temp_raw can hand back: None, or the lines of w1_slave.
RawPayloads ==
  {NoLines}
  \cup {[ok |-> TRUE, n |-> 0, crc |-> "-", t |-> "-", milli |-> 0]}
  \cup {[ok |-> TRUE, n |-> 1, crc |-> c, t |-> "-", milli |-> 0] : c \in {"YES", "NO"}}
  \cup {[ok |-> TRUE, n |-> 2, crc |-> c, t |-> s, milli |-> 0] :
           c \in {"YES", "NO"}, s \in {"missing", "malformed"}}
  \cup {[ok |-> TRUE, n |-> 2, crc |-> c, t |-> "ok", milli |-> m] :
           c \in {"YES", "NO"}, m \in ProbeMillis}

\* The probes of S as glob lists them: the bus directory keeps one order.
RECURSIVE InOrder(_)
InOrder(S) ==
  IF S = {} THEN <<>>
  ELSE LET x == CHOOSE y \in S : \A z \in S : y <= z
       IN <<x>> \o InOrder(S \ {x})

\* The lists find_sensors can return: any of the probes may be on the bus.
SensorLists == {InOrder(S) : S \in SUBSET Probes}

----------------------------------------------------------------------------
(* ModbusRTUWriter *)

\* int(x) of a quotient: truncation toward zero
TruncDiv(a, b) == IF a >= 0 THEN a \div b ELSE -((-a) \div b)

\* temp_value with the truncation made before the scaling: int(temperature) * 10
temp_value_truncated_first(milli) == TruncDiv(milli, 1000) * 10

\* temp_value = int(temperature * 10), temperature given in millidegrees
temp_value(milli) == TruncDiv(milli * 10, 1000)

\* Instrument.write_register(register_address, temp_value, functioncode=6) is
\* called without signed=True: minimalmodbus packs the value as an unsigned
\* 16-bit word (struct format ">H") and raises ValueError outside 0..65535,
\* before anything is sent.
write_register_packs(value) == value >= 0 /\ value <= 65535

\* connect() whose except branch leaves an instrument behind
connect_leaves_instrument(portOpens) == "Instrument"

\* connect(): the Instrument is built, or the exception leaves None
connect(portOpens) == IF portOpens THEN "Instrument" ELSE "None"

\* the except branch without its "self.instrument = None"
except_instrument_kept(inst) == inst

\* the except branch of write_temperature: self.instrument = None
except_instrument(inst) == "None"

\* write_temperature that, when the transport refuses the frame, connects
\* again and sends the frame a second time before it gives up
write_temperature_retrying(inst, register_address, temp, portOpens, accepted) ==
  LET tried == inst = "None"
      inst1 == IF tried THEN connect(portOpens) ELSE inst
      base  == [reg |-> register_address, arg |-> temp,
                connectedBefore |-> ~tried, connTried |-> tried,
                portOpened |-> tried /\ portOpens,
                nConnects |-> IF tried THEN 1 ELSE 0, nFrames |-> 0,
                tval |-> IF inst1 # "None" /\ temp.kind = "float"
                           THEN temp_value(temp.milli) ELSE 0,
                frame |-> FALSE, fc |-> 0, fval |-> 0, onFresh |-> FALSE,
                accepted |-> FALSE, result |-> FALSE, cause |-> "-",
                instrument |-> inst1]
  IN
  IF inst1 = "None"
    THEN [base EXCEPT !.cause = "connect"]
  ELSE IF temp.kind # "float"
    THEN [base EXCEPT !.cause = "encode", !.instrument = except_instrument(inst1)]
  ELSE IF ~write_register_packs(temp_value(temp.milli))
    THEN [base EXCEPT !.cause = "encode", !.instrument = except_instrument(inst1)]
  ELSE IF ~accepted
    THEN [base EXCEPT !.cause = "transport", !.frame = TRUE, !.nFrames = 2,
                      !.nConnects = base.nConnects + 1,
                      !.fc = FunctionCode,
                      !.fval = temp_value(temp.milli), !.onFresh = tried,
                      !.instrument = except_instrument(inst1)]
  ELSE [base EXCEPT !.cause = "ok", !.frame = TRUE, !.nFrames = 1,
                    !.fc = FunctionCode,
                    !.fval = temp_value(temp.milli), !.onFresh = tried,
                    !.accepted = TRUE, !.result = TRUE]

\* One write_temperature call.  portOpens and accepted are what the serial
\* line does if it is asked.  The result tells what the call did.
write_temperature(inst, register_address, temp, portOpens, accepted) ==
  LET tried == inst = "None"
      inst1 == IF tried THEN connect(portOpens) ELSE inst
      base  == [reg |-> register_address, arg |-> temp,
                connectedBefore |-> ~tried, connTried |-> tried,
                portOpened |-> tried /\ portOpens,
                nConnects |-> IF tried THEN 1 ELSE 0, nFrames |-> 0,
                tval |-> IF inst1 # "None" /\ temp.kind = "float"
                           THEN temp_value(temp.milli) ELSE 0,
                frame |-> FALSE, fc |-> 0, fval |-> 0, onFresh |-> FALSE,
                accepted |-> FALSE, result |-> FALSE, cause |-> "-",
                instrument |-> inst1]
  IN
  IF inst1 = "None"
    THEN [base EXCEPT !.cause = "connect"]
  ELSE IF temp.kind # "float"
    \* (None, None) * 10 is a tuple, int() of it raises TypeError
    THEN [base EXCEPT !.cause = "encode", !.instrument = except_instrument(inst1)]
  ELSE IF ~write_register_packs(temp_value(temp.milli))
    THEN [base EXCEPT !.cause = "encode", !.instrument = except_instrument(inst1)]
  ELSE IF ~accepted
    THEN [base EXCEPT !.cause = "transport", !.frame = TRUE, !.nFrames = 1,
                      !.fc = FunctionCode,
                      !.fval = temp_value(temp.milli), !.onFresh = tried,
                      !.instrument = except_instrument(inst1)]
  ELSE [base EXCEPT !.cause = "ok", !.frame = TRUE, !.nFrames = 1,
                    !.fc = FunctionCode,
                    !.fval = temp_value(temp.milli), !.onFresh = tried,
                    !.accepted = TRUE, !.result = TRUE]

NoCall == [reg |-> 0, arg |-> NoTemperature, connectedBefore |-> FALSE,
           connTried |-> FALSE, portOpened |-> FALSE, nConnects |-> 0,
           nFrames |-> 0, tval |-> 0, frame |-> FALSE, fc |-> 0, fval |-> 0,
           onFresh |-> FALSE, accepted |-> FALSE, result |-> FALSE,
           cause |-> "nocall", instrument |-> "None"]

ResultName(r) == IF r.cause = "nocall" THEN "none"
                 ELSE IF r.result THEN "Success" ELSE "Failure"

\* The slave applies an accepted frame.
RegsAfter(r) == IF r.accepted THEN [regs EXCEPT ![r.reg] = <<r.fval>>] ELSE regs

----------------------------------------------------------------------------
(* DS18B20 *)

\* The token the while condition looks at: lines[0].strip()[-3:]
HasMarker(p) == p.crc = "YES"

\* read_temp_parse with "//" for "/": whole degrees only
read_temp_parse_floor_division(p) ==
  IF p.n < 2 THEN [out |-> "raise", val |-> NoneTuple]
  ELSE IF p.t = "missing" THEN [out |-> "return", val |-> NoneTuple]
  ELSE IF p.t = "malformed" THEN [out |-> "raise", val |-> NoneTuple]
  ELSE [out |-> "return", val |-> Float((p.milli \div 1000) * 1000)]

\* read_temp from "equals_pos = lines[1].find('t=')" on: what the call does
\* with validated lines.
read_temp_parse(p) ==
  IF p.n < 2 THEN [out |-> "raise", val |-> NoneTuple]            \* lines[1]: IndexError
  ELSE IF p.t = "missing" THEN [out |-> "return", val |-> NoneTuple]
  ELSE IF p.t = "malformed" THEN [out |-> "raise", val |-> NoneTuple]  \* float(): ValueError
  ELSE [out |-> "return", val |-> Float(p.milli)]

\* read_temp up to its while loop, on the first raw read p.
read_temp_first(p) ==
  IF ~p.ok \/ p.n < 2 THEN [out |-> "return", val |-> NoneTuple]
  ELSE IF ~HasMarker(p) THEN [out |-> "retry", val |-> NoneTuple]
  ELSE read_temp_parse(p)

\* The while loop as an "if": one re-read, and a bad token gives the probe up
read_temp_again_once(p) ==
  IF ~p.ok THEN [out |-> "return", val |-> NoneTuple]
  ELSE IF p.n = 0 THEN [out |-> "raise", val |-> NoneTuple]
  ELSE IF ~HasMarker(p) THEN [out |-> "return", val |-> NoneTuple]
  ELSE read_temp_parse(p)

\* One turn of the while loop of read_temp, on the re-read p.
read_temp_again(p) ==
  IF ~p.ok THEN [out |-> "return", val |-> NoneTuple]
  ELSE IF p.n = 0 THEN [out |-> "raise", val |-> NoneTuple]       \* lines[0]: IndexError
  ELSE IF ~HasMarker(p) THEN [out |-> "retry", val |-> NoneTuple]
  ELSE read_temp_parse(p)

\* get_all_temperatures: "if temp_c is not None"
is_not_None(v) == v.kind # "None"

\* get_all_temperatures after read_temp handed back v for sensors[idx]
Collected(v) ==
  IF is_not_None(v) THEN Append(results, [id |-> sensors[idx], temp |-> v])
  ELSE results

\* What one raw read of the current probe leads to (r is read_temp's step,
\* n the number of raw reads made for the probe).
AfterRead(p, r, n) ==
  /\ lines' = p
  /\ attempts' = n
  /\ IF r.out = "retry"
       THEN /\ pc' = "retry"
            /\ UNCHANGED <<idx, results>>
     ELSE IF r.out = "raise"
       \* the exception leaves get_all_temperatures and reaches main's
       \* "except Exception"
       THEN /\ pc' = "crashed"
            /\ UNCHANGED <<idx, results>>
     ELSE /\ results' = Collected(r.val)
          /\ idx' = idx + 1
          /\ pc' = IF idx < Len(sensors) THEN "read"
                   ELSE IF Len(Collected(r.val)) = 0 THEN "sleep" ELSE "write"
  /\ UNCHANGED <<mode, instrument, sensors, wi, temperature, fetch, last,
                 prevResult, attempted, tickFault, regs, sampled, watch, pin>>

----------------------------------------------------------------------------
(* ds18b20_modbus.py: main *)

\* main without its "if not sensors: return"
sensor_main_startup_without_check ==
  /\ mode = "sensor"
  /\ pc = "start"
  /\ \E portOpens \in BOOLEAN, found \in SensorLists :
       /\ instrument' = connect(portOpens)
       /\ sensors' = found
       /\ pc' = "tick"
  /\ UNCHANGED <<mode, idx, lines, attempts, results, wi, temperature,
                 fetch, last, prevResult, attempted, tickFault, regs,
                 sampled, watch, pin, stopDelivered>>

\* main up to the loop: the writer is built (and connects), the bus is scanned.
sensor_main_startup ==
  /\ mode = "sensor"
  /\ pc = "start"
  /\ \E portOpens \in BOOLEAN, found \in SensorLists :
       /\ instrument' = connect(portOpens)
       \* sensors = sensor_reader.find_sensors(); "if not sensors: return"
       /\ sensors' = found
       /\ pc' = IF found = <<>> THEN "nosensors" ELSE "tick"
  /\ UNCHANGED <<mode, idx, lines, attempts, results, wi, temperature,
                 fetch, last, prevResult, attempted, tickFault, regs,
                 sampled, watch, pin, stopDelivered>>

\* get_all_temperatures: find_sensors
get_all_temperatures_scan ==
  /\ mode = "sensor"
  /\ pc = "tick"
  /\ \E found \in SensorLists :
       /\ sensors' = found
       /\ pc' = IF found = <<>> THEN "sleep" ELSE "read"
  /\ idx' = 1
  /\ attempts' = 0
  /\ lines' = NoLines
  /\ results' = <<>>
  /\ wi' = 1
  /\ attempted' = <<>>
  /\ tickFault' = FALSE
  /\ sampled' = sampled + 1
  /\ UNCHANGED <<mode, instrument, temperature, fetch, last, prevResult, regs,
                 watch, pin, stopDelivered>>

\* read_temp(sensors[idx]): the first raw read.  A Ctrl+C that arrives while
\* read_temp_raw is in its try is caught by its bare "except:", and the raw
\* read hands back None (interrupted).
read_temp_read ==
  /\ mode = "sensor"
  /\ pc = "read"
  /\ \E p \in RawPayloads, interrupted \in BOOLEAN :
       /\ interrupted => p = NoLines
       /\ AfterRead(p, read_temp_first(p), 1)
       /\ stopDelivered' = (stopDelivered \/ (watch /\ interrupted))

\* read_temp(sensors[idx]): time.sleep(0.2) and a re-read
read_temp_retry ==
  /\ mode = "sensor"
  /\ pc = "retry"
  /\ \E p \in RawPayloads, interrupted \in BOOLEAN :
       /\ interrupted => p = NoLines
       /\ AfterRead(p, read_temp_again(p),
                    IF attempts < MaxAttempts THEN attempts + 1 ELSE attempts)
       /\ stopDelivered' = (stopDelivered \/ (watch /\ interrupted))

\* "{temp_c:.2f}" formats a float; a tuple raises TypeError
formats(v) == v.kind = "float"

\* One turn of "for i, (sensor_id, temp_c) in enumerate(temperatures.items())"
sensor_main_write ==
  /\ mode = "sensor"
  /\ pc = "write"
  /\ wi <= Len(results)
  /\ LET i == wi - 1
         temp_c == results[wi].temp
     IN
     /\ IF i < Cardinality(DOMAIN sensor_registers)
          THEN \E portOpens \in BOOLEAN, accepted \in BOOLEAN :
                 LET r == write_temperature(instrument, sensor_registers[i], temp_c,
                                            portOpens, accepted)
                 IN /\ instrument' = r.instrument
                    /\ prevResult' = ResultName(last)
                    /\ last' = r
                    /\ regs' = RegsAfter(r)
                    /\ attempted' = Append(attempted, [i |-> i, id |-> results[wi].id,
                                                       reg |-> sensor_registers[i]])
                    /\ tickFault' = (tickFault \/ r.cause \in {"connect", "transport"})
                    /\ pin' = IF watch /\ pin = <<>> /\ temp_c.kind = "float"
                                THEN <<results[wi].id, sensor_registers[i]>> ELSE pin
          ELSE UNCHANGED <<instrument, prevResult, last, regs, attempted, tickFault, pin>>
     /\ IF ~formats(temp_c)
          THEN pc' = "crashed" /\ wi' = wi
          ELSE /\ wi' = wi + 1
               /\ pc' = IF wi < Len(results) THEN "write" ELSE "sleep"
  \* the locals of read_temp are gone once get_all_temperatures has returned
  /\ lines' = NoLines
  /\ attempts' = 0
  /\ UNCHANGED <<mode, sensors, idx, results, temperature, fetch,
                 sampled, watch, stopDelivered>>

\* a sleep that also looks after the connection: a dropped one is re-opened
time_sleep_reconnecting ==
  /\ pc = "sleep"
  /\ pc' = "tick"
  /\ sampled' = 0
  /\ \E portOpens \in BOOLEAN :
       instrument' = IF instrument = "None" THEN connect(portOpens) ELSE instrument
  /\ UNCHANGED <<mode, sensors, idx, lines, attempts, results, wi,
                 temperature, fetch, last, prevResult, attempted, tickFault, regs,
                 watch, pin, stopDelivered>>

\* time.sleep between ticks
time_sleep ==
  /\ pc = "sleep"
  /\ pc' = "tick"
  /\ sampled' = 0
  /\ UNCHANGED <<mode, instrument, sensors, idx, lines, attempts, results, wi,
                 temperature, fetch, last, prevResult, attempted, tickFault, regs,
                 watch, pin, stopDelivered>>

\* Ctrl+C inside the try of main
KeyboardInterrupt ==
  /\ pc \in {"tick", "read", "retry", "write", "sleep"}
  /\ pc' = "stopped"
  /\ stopDelivered' = (stopDelivered \/ watch)
  /\ UNCHANGED <<mode, instrument, sensors, idx, lines, attempts, results, wi,
                 temperature, fetch, last, prevResult, attempted, tickFault, regs,
                 sampled, watch, pin>>

----------------------------------------------------------------------------
(* weather_modbus.py *)

\* What wttr.in can answer, with the exception the statement it breaks raises.
ProviderOutcomes ==
  {[what |-> w, milli |-> 0] :
     w \in {"transport failure", "error status", "not JSON", "no current_condition",
            "empty current_condition", "no temp_C", "non-numeric temp_C"}}
  \cup {[what |-> "numeric temp_C", milli |-> m] : m \in WeatherMillis}

Raised(o) ==
  CASE o.what = "transport failure"       -> "RequestException"  \* requests.get
    [] o.what = "error status"            -> "RequestException"  \* raise_for_status: HTTPError
    [] o.what = "not JSON"                -> "ValueError"        \* response.json()
    [] o.what = "no current_condition"    -> "KeyError"
    [] o.what = "empty current_condition" -> "IndexError"        \* [][0]
    [] o.what = "no temp_C"               -> "KeyError"
    [] o.what = "non-numeric temp_C"      -> "ValueError"        \* float()
    [] OTHER                              -> "-"

\* the two except clauses of get_current_temperature
Caught == {"RequestException", "KeyError", "ValueError", "TypeError"}

\* get_current_temperature whose except clauses hand back 0.0 instead of None
get_current_temperature_zero(o) ==
  IF Raised(o) = "-" THEN [out |-> "return", val |-> Float(o.milli)]
  ELSE IF Raised(o) \in Caught THEN [out |-> "return", val |-> Float(0)]
  ELSE [out |-> "raise", val |-> NoTemperature]

get_current_temperature(o) ==
  IF Raised(o) = "-" THEN [out |-> "return", val |-> Float(o.milli)]
  ELSE IF Raised(o) \in Caught THEN [out |-> "return", val |-> NoTemperature]
  ELSE [out |-> "raise", val |-> NoTemperature]

NoFetch == [what |-> "-", milli |-> 0, out |-> "-"]

weather_main_startup ==
  /\ mode = "weather"
  /\ pc = "start"
  /\ \E portOpens \in BOOLEAN : instrument' = connect(portOpens)
  /\ pc' = "tick"
  /\ UNCHANGED <<mode, sensors, idx, lines, attempts, results, wi, temperature,
                 fetch, last, prevResult, attempted, tickFault, regs,
                 sampled, watch, pin, stopDelivered>>

\* temperature = weather_fetcher.get_current_temperature(), and the else branch
weather_main_fetch ==
  /\ mode = "weather"
  /\ pc = "tick"
  /\ \E o \in ProviderOutcomes :
       LET r == get_current_temperature(o)
       IN /\ fetch' = [what |-> o.what, milli |-> o.milli, out |-> r.out]
          /\ temperature' = r.val
          /\ pc' = IF r.out = "raise" THEN "crashed"
                   ELSE IF r.val.kind = "None" THEN "sleep" ELSE "write"
  /\ attempted' = <<>>
  /\ tickFault' = FALSE
  /\ sampled' = sampled + 1
  /\ UNCHANGED <<mode, instrument, sensors, idx, lines, attempts, results, wi,
                 last, prevResult, regs, watch, pin, stopDelivered>>

\* "if temperature is not None": write_temperature(WEATHER_REGISTER, temperature)
weather_main_write ==
  /\ mode = "weather"
  /\ pc = "write"
  /\ \E portOpens \in BOOLEAN, accepted \in BOOLEAN :
       LET r == write_temperature(instrument, WEATHER_REGISTER, temperature,
                                  portOpens, accepted)
       IN /\ instrument' = r.instrument
          /\ prevResult' = ResultName(last)
          /\ last' = r
          /\ regs' = RegsAfter(r)
          /\ attempted' = Append(attempted, [i |-> 0, id |-> 0, reg |-> WEATHER_REGISTER])
          /\ tickFault' = (tickFault \/ r.cause \in {"connect", "transport"})
  /\ pc' = "sleep"
  /\ UNCHANGED <<mode, sensors, idx, lines, attempts, results, wi, temperature, fetch,
                 sampled, watch, pin, stopDelivered>>

----------------------------------------------------------------------------
(* The programs *)

\* The state when main is entered; w tells whether the history is kept.
Start(w) ==
  /\ mode \in {"sensor", "weather"}
  /\ pc = "start"
  /\ instrument = "None"
  /\ sensors = <<>>
  /\ idx = 1
  /\ lines = NoLines
  /\ attempts = 0
  /\ results = <<>>
  /\ wi = 1
  /\ temperature = NoTemperature
  /\ fetch = NoFetch
  /\ last = NoCall
  /\ prevResult = "none"
  /\ attempted = <<>>
  /\ tickFault = FALSE
  /\ regs = [a \in RegisterAddresses |-> <<>>]
  /\ sampled = 0
  /\ watch = w
  /\ pin = <<>>
  /\ stopDelivered = FALSE

Init == Start(FALSE)

Next ==
  \/ sensor_main_startup
  \/ get_all_temperatures_scan
  \/ read_temp_read
  \/ read_temp_retry
  \/ sensor_main_write
  \/ weather_main_startup
  \/ weather_main_fetch
  \/ weather_main_write
  \/ time_sleep
  \/ KeyboardInterrupt

Spec == Init /\ [][Next]_vars

\* The same programs with the history variables kept.
HistInit == Start(TRUE)

HistSpec == HistInit /\ [][Next]_vars

----------------------------------------------------------------------------
(* A single write_temperature call on a connected writer, for every           *)
(* temperature of a range (the quantization as a function of its argument)    *)

\* Largest temperature, in tenths of a degree, the call is given.
MaxDeci == 33000

QuantMillis == {100 * d : d \in -MaxDeci..MaxDeci} \cup ProbeMillis \cup WeatherMillis

QuantInit ==
  /\ mode = "writer"
  /\ pc = "call"
  /\ instrument = "Instrument"
  /\ temperature \in {Float(m) : m \in QuantMillis}
  /\ sensors = <<>>
  /\ idx = 1
  /\ lines = NoLines
  /\ attempts = 0
  /\ results = <<>>
  /\ wi = 1
  /\ fetch = NoFetch
  /\ last = NoCall
  /\ prevResult = "none"
  /\ attempted = <<>>
  /\ tickFault = FALSE
  /\ regs = [a \in RegisterAddresses |-> <<>>]
  /\ sampled = 0
  /\ watch = FALSE
  /\ pin = <<>>
  /\ stopDelivered = FALSE

writer_call ==
  /\ mode = "writer"
  /\ pc = "call"
  /\ \E accepted \in BOOLEAN :
       LET r == write_temperature(instrument, WEATHER_REGISTER, temperature,
                                  TRUE, accepted)
       IN /\ instrument' = r.instrument
          /\ prevResult' = ResultName(last)
          /\ last' = r
          /\ regs' = RegsAfter(r)
  /\ pc' = "called"
  /\ UNCHANGED <<mode, sensors, idx, lines, attempts, results, wi, temperature,
                 fetch, attempted, tickFault, sampled, watch, pin, stopDelivered>>

QuantNext == writer_call

QuantSpec == QuantInit /\ [][QuantNext]_vars

----------------------------------------------------------------------------
(* Claims *)

Called == last.cause # "nocall"

\* In a step from pc "read" or "retry" that is not the interrupt, read_temp
\* makes one raw read and lines' is what it read.
RawReadStep == mode = "sensor" /\ pc \in {"read", "retry"} /\ pc' # "stopped"

\* The raw read succeeded and its first line lacks the success marker.
LacksMarker(p) == p.ok /\ p.n >= 1 /\ ~HasMarker(p)

\* The raw read carries the success marker and a well-formed t= field.
ValidPayload(p) == p.ok /\ p.n = 2 /\ HasMarker(p) /\ p.t = "ok"

\* read_temp is still in its while loop for the same probe.
StillReading == pc' = "retry" /\ idx' = idx /\ results' = results

\* read_temp handed back v and get_all_temperatures stored it.
Returned(v) ==
  /\ results' = Append(results, [id |-> sensors[idx], temp |-> v])
  /\ idx' = idx + 1

\* C1: whenever a write_temperature call reports Failure the writer is
\* Disconnected afterwards, and the call after a failed one makes a connection
\* attempt and issues a frame, if any, only on the connection it has just made.
C1_Reconnect ==
  /\ (Called /\ ~last.result => instrument = "None")
  /\ (prevResult = "Failure" =>
        /\ last.connTried
        /\ (last.frame => last.onFresh))

C1_Witness ==
  /\ prevResult = "Failure"
  /\ last.connTried
  /\ last.frame
  /\ last.onFresh
  /\ last.result

\* C2: no failure inside a tick ends the loop: main never reaches its
\* "except Exception" branch, in either program.
C2_LoopSurvivesEveryTick == pc # "crashed"

\* C3: the result of get_all_temperatures holds only probes that produced a
\* reading, and write_temperature is only ever called with a reading.
C3_OnlyReadingsCollected ==
  /\ \A k \in 1..Len(results) : results[k].temp.kind = "float"
  /\ (mode = "sensor" /\ Called => last.arg.kind = "float")

\* C4: a write_temperature call made while connected, with a temperature whose
\* tenths fit a signed 16-bit integer, issues one function code 6 frame
\* carrying int(temperature * 10), and reports Success unless the transport
\* refuses the frame.
C4_ConnectedWriteIssuesFrame ==
  (/\ Called
   /\ last.connectedBefore
   /\ last.arg.kind = "float"
   /\ temp_value(last.arg.milli) >= -32768
   /\ temp_value(last.arg.milli) <= 32767)
  => /\ last.frame
     /\ last.fc = 6
     /\ last.fval = temp_value(last.arg.milli)
     /\ (last.result \/ last.cause = "transport")

\* C5: a tick in which two probes gave 21.562 and -5.0, in this order, and the
\* serial line refused nothing ends with 216 in register 4096 and -50 in
\* register 4097.
C5_Scenario1 ==
  (/\ mode = "sensor"
   /\ pc = "sleep"
   /\ Len(results) = 2
   /\ results[1].temp = Float(21562)
   /\ results[2].temp = Float(-5000)
   /\ ~tickFault)
  => /\ regs[4096] = <<216>>
     /\ regs[4097] = <<-50>>

\* C6: get_current_temperature never raises: whatever the provider answers it
\* returns None, and it returns a temperature exactly when the first
\* current_condition element holds a numeric temp_C.
C6_SampleNeverRaises ==
  /\ fetch.out # "raise"
  /\ (fetch.out = "return" =>
        (temperature.kind = "float" <=> fetch.what = "numeric temp_C"))

\* C7: once every probe of a tick was sampled and the write loop is over, each
\* reading whose index is in sensor_registers had its write attempted, whatever
\* happened to the other indices; and a call the transport refused reported
\* Failure and left the writer Disconnected.
C7_Isolation ==
  /\ (/\ mode = "sensor"
      /\ pc \in {"sleep", "crashed"}
      /\ idx > Len(sensors))
     => \A k \in 1..Len(results) :
          (k - 1 \in DOMAIN sensor_registers /\ results[k].temp.kind = "float")
          => \E a \in 1..Len(attempted) : attempted[a].i = k - 1
  /\ (Called /\ last.cause = "transport" => ~last.result /\ instrument = "None")

\* C8 as stated: a raw read that succeeds with a first line lacking the
\* success marker never ends read_temp: the probe is read again.
C8_NeverAbandons ==
  [][RawReadStep /\ LacksMarker(lines') => StillReading]_vars

\* C8 as amended: a raw read that succeeds with a first line lacking the
\* marker keeps read_temp re-reading, unless it is the first read and has
\* fewer than two lines; and read_temp hands a value back only when a raw read
\* failed, the first read had fewer than two lines, or a read carried the
\* marker.
C8_NeverAbandonsTwoLines ==
  [][RawReadStep =>
       /\ (LacksMarker(lines') /\ (pc = "read" => lines'.n >= 2) => StillReading)
       /\ (results' # results =>
             \/ ~lines'.ok
             \/ (pc = "read" /\ lines'.n < 2)
             \/ (lines'.ok /\ lines'.n >= 1 /\ HasMarker(lines')))]_vars

C8_Witness ==
  /\ pc = "retry"
  /\ attempts = MaxAttempts
  /\ LacksMarker(lines)

\* C9 as stated: every raw read that succeeds without the marker is followed by
\* another read, and the read that carries the marker and a well-formed t=
\* makes read_temp return that reading, however many reads came before.
C9_RetryIndependence ==
  [][RawReadStep =>
       /\ (LacksMarker(lines') => StillReading)
       /\ (ValidPayload(lines') => Returned(Float(lines'.milli)))]_vars

\* C9 as amended: the same, for reads lacking the marker of which the first
\* has at least two lines.
C9_RetryIndependenceTwoLines ==
  [][RawReadStep =>
       /\ (LacksMarker(lines') /\ (pc = "read" => lines'.n >= 2) => StillReading)
       /\ (ValidPayload(lines') => Returned(Float(lines'.milli)))]_vars

C9_Witness ==
  /\ mode = "sensor"
  /\ attempts = MaxAttempts
  /\ ValidPayload(lines)
  /\ Len(results) >= 1
  /\ idx = Len(results) + 1
  /\ results[Len(results)].temp = Float(lines.milli)

\* C10: for every temperature with one decimal whose tenths fit a signed
\* 16-bit integer, the value write_temperature quantizes it to, divided by 10,
\* is the temperature.
C10_QuantizationRoundTrip ==
  (/\ Called
   /\ last.arg.kind = "float"
   /\ last.arg.milli % 100 = 0
   /\ last.arg.milli >= -3276800
   /\ last.arg.milli <= 3276700)
  => last.tval * 100 = last.arg.milli

C10_Witness ==
  /\ Called
  /\ last.arg = Float(-3276800)
  /\ last.tval = -32768

----------------------------------------------------------------------------
(* Claims on the bridge loops and the writer's states *)

\* The write loop of the current sensor tick is over (it ran to its end or
\* its print raised), every probe having been sampled.
WriteLoopOver == mode = "sensor" /\ pc \in {"sleep", "crashed"} /\ idx > Len(sensors)

\* How many entries of results have an index in sensor_registers.
Mapped == IF Len(results) < Cardinality(DOMAIN sensor_registers)
            THEN Len(results) ELSE Cardinality(DOMAIN sensor_registers)

\* C11: in a sensor tick the k-th write_temperature call is for index k-1 of
\* the result of get_all_temperatures, to sensor_registers[k-1], with that
\* entry's value; no call is made for an index outside sensor_registers; and
\* once the write loop is over every index in sensor_registers had its call.
C11_SensorMapping ==
  mode = "sensor" =>
    /\ \A k \in 1..Len(attempted) :
         /\ attempted[k].i = k - 1
         /\ k - 1 \in DOMAIN sensor_registers
         /\ attempted[k].reg = sensor_registers[k - 1]
         /\ k <= Len(results)
         /\ attempted[k].id = results[k].id
    /\ (Len(attempted) >= 1 =>
          /\ last.reg = attempted[Len(attempted)].reg
          /\ last.arg = results[Len(attempted)].temp)
    /\ (WriteLoopOver => Len(attempted) = Mapped)

\* C12: a weather tick calls get_current_temperature once; when the provider
\* gave a numeric temp_C, write_temperature is called once, for
\* WEATHER_REGISTER and that temperature (13 is quantized to 130); when it
\* gave none, write_temperature is not called in the tick.
C12_WeatherTick ==
  mode = "weather" =>
    /\ (pc = "tick" => sampled = 0)
    /\ (pc \in {"write", "sleep"} => sampled = 1)
    /\ (pc = "write" => fetch.what = "numeric temp_C" /\ attempted = <<>>
                        /\ temperature = Float(fetch.milli))
    /\ (pc = "sleep" =>
          IF fetch.what = "numeric temp_C"
            THEN /\ Len(attempted) = 1
                 /\ attempted[1].reg = WEATHER_REGISTER
                 /\ last.reg = WEATHER_REGISTER
                 /\ last.arg = Float(fetch.milli)
                 /\ (fetch.milli = 13000 /\ last.cause # "connect" => last.tval = 130)
                 /\ (fetch.milli = 13000 /\ last.frame => last.fval = 130)
            ELSE attempted = <<>>)

C12_Witness ==
  /\ mode = "weather"
  /\ pc = "sleep"
  /\ fetch.what = "numeric temp_C"
  /\ fetch.milli = 13000
  /\ Len(attempted) = 1
  /\ last.accepted
  /\ regs[WEATHER_REGISTER] = <<130>>

\* C13: a write_temperature call that finds no instrument and whose connect()
\* fails reports Failure, leaves the writer without instrument and sends no
\* frame.
C13_ConnectFailure ==
  (Called /\ last.connTried /\ ~last.portOpened)
  => /\ ~last.result
     /\ ~last.frame
     /\ last.nFrames = 0
     /\ ~last.accepted
     /\ instrument = "None"

C13_Witness ==
  /\ Called
  /\ last.connTried
  /\ ~last.portOpened
  /\ last.arg.kind = "float"
  /\ instrument = "None"

\* C14 as stated: before the first write_temperature call the writer is
\* Disconnected.
C14_DisconnectedUntilFirstWrite == ~Called => instrument = "None"

\* C14 as amended: the writer's connection state changes only when main builds
\* the writer (its constructor calls connect()) or inside a write_temperature
\* call, where it becomes what that call left.
C14_StateChangesOnlyInConstructorOrWrite ==
  [][instrument' # instrument =>
       \/ pc = "start"
       \/ (pc = "write" /\ last'.cause # "nocall" /\ instrument' = last'.instrument)]_vars

C14_Witness ==
  /\ ~Called
  /\ pc = "tick"
  /\ instrument = "Instrument"

\* C15: one write_temperature call makes at most one connection attempt and
\* sends at most one frame; when the transport refuses the frame the call has
\* sent it once, has connected only if it found no instrument, reports Failure
\* and leaves the writer without instrument.
C15_NoRetryInsideCall ==
  Called =>
    /\ last.nConnects <= 1
    /\ last.nFrames <= 1
    /\ (last.cause = "transport" =>
          /\ last.nFrames = 1
          /\ last.nConnects = (IF last.connectedBefore THEN 0 ELSE 1)
          /\ ~last.result
          /\ instrument = "None")

C15_Witness ==
  /\ Called
  /\ last.cause = "transport"
  /\ last.connectedBefore
  /\ last.nFrames = 1

\* C16: read_temp never lets an error escape: no raw read, first or repeated,
\* ends the tick through main's "except Exception".
C16_SampleOneNeverEscalates ==
  [][RawReadStep => pc' # "crashed"]_vars

\* C17: the readings of one probe are always written to one register: a write
\* called for a reading of the probe of pin goes to the register of pin.
C17_StableBinding ==
  (mode = "sensor" /\ pin # <<>>) =>
    \A k \in 1..Len(attempted) :
      (attempted[k].id = pin[1] /\ results[k].temp.kind = "float")
      => attempted[k].reg = pin[2]

\* C18 as stated: the sensor bridge always enters its loop: main never returns
\* for want of probes.
C18_LoopAlwaysEntered == pc # "nosensors"

\* C18 as amended: the sensor bridge enters its loop exactly when the scan at
\* startup finds a probe, and returns before the loop when it finds none;
\* inside the loop every tick scans the bus again and reads what it finds, and
\* a tick that finds no probe sleeps until the next one.
C18_LoopEnteredIffProbeFound ==
  [][mode = "sensor" =>
       /\ (pc = "start" =>
             /\ (pc' = "nosensors" <=> sensors' = <<>>)
             /\ (pc' = "tick" <=> sensors' # <<>>))
       /\ (pc = "tick" /\ pc' # "stopped" =>
             /\ sampled' = 1
             /\ sensors' \in SensorLists
             /\ (sensors' = <<>> => pc' = "sleep")
             /\ (sensors' # <<>> => pc' = "read" /\ idx' = 1))
       /\ (pc = "sleep" /\ pc' # "stopped" => pc' = "tick")]_vars

C18_Witness ==
  /\ mode = "sensor"
  /\ pc = "nosensors"
  /\ sensors = <<>>

\* C19: a Ctrl+C pressed while main is in its try always ends main through
\* "except KeyboardInterrupt": once it was pressed main has stopped, so no
\* tick is started and no write_temperature call made after it.
C19_StopNeverLost == stopDelivered => pc = "stopped"

\* C20: after a write_temperature call, it returned True exactly if the writer
\* holds an instrument; a call that failed while quantizing or packing the
\* value sent no frame and left the writer without instrument.
C20_ResultMatchesState ==
  Called =>
    /\ (last.result <=> instrument = "Instrument")
    /\ (last.cause = "encode" =>
          ~last.result /\ last.nFrames = 0 /\ instrument = "None")

C20_Witness ==
  /\ Called
  /\ last.cause = "encode"
  /\ last.connectedBefore
  /\ instrument = "None"

====
